---- MODULE Spec2Model ----
(***************************************************************************)
(* A model of rust-snapshot's timed capture pipeline.                      *)
(*                                                                         *)
(* Part 1: the Scheduler (src/src/resources/time_probe.rs, TimeProbe),     *)
(* an iterator that polls the monotonic clock and emits a TimeSnapshot     *)
(* whenever more than `interval` scaled milliseconds have passed since the *)
(* previous one.                                                           *)
(*                                                                         *)
(* Time: the monotonic clock (std::time::Instant) is finer than the        *)
(* milliseconds the code computes with; `clock`, `moment` and `last` are   *)
(* counted in ticks, Res ticks to the millisecond, and Duration::as_millis *)
(* truncates.  time_scale is an f32: it is modelled as a dyadic rational   *)
(* <<num, den>> and every `as f32` conversion and f32 product is rounded   *)
(* to the 24-bit significand of the type.                                  *)
(*                                                                         *)
(* Part 2: the replay backend (src/src/hardware/mock_camera.rs) and the    *)
(* run controller (src/src/app.rs, App::run), which builds a camera and a  *)
(* TimeProbe, optionally syncs the time, takes the lock file and then, per *)
(* tick, captures a frame, saves it and looks at the lock file.            *)
(*                                                                         *)
(* Part 3: the Capture Session of either backend (AvCamera over the libav  *)
(* Capture of crates/rust-ffmpeg-capture, MockCamera) with a ledger of the *)
(* native resources acquired and released, and the pixel conversion        *)
(* Encoding::frame_from_slice (src/src/encoding.rs).                       *)
(***************************************************************************)
EXTENDS Integers, Sequences, FiniteSets, TLC

\* ------------------------------------------------------------------ bounds

\* Clock ticks per millisecond (the resolution of Instant in the model).
Res == 2

\* The clock is explored on windows of MaxTicks ticks: one starting at 0
\* and one after each long pause of 2^24 ms.
MaxTicks == 6

\* How many long pauses (of 2^24 ms each) the environment may make.
MaxJumps == 1

\* Largest small interval, idle time (ms) and sample count of a config.
MaxInterval == 1

MaxIdle == 1

MaxSamples == 2

\* How many times sync_network_time may be called on one TimeProbe.
MaxSyncs == 1

\* Largest number of files in the replay folder.
MaxFiles == 2

\* Largest number of ticks that pass between two consecutive Instant::now()
\* calls of one constructor or sync.
MaxGap == 1

\* Calendar time (s since the epoch) at construction, and the seconds an
\* NTP lookup returns.
WallSec == 3

NtpSec == 5

\* Longest `resolution` string handed to AvCamera::initialize.
MaxResLen == 4

\* How many times initialize, next and shutdown are called on one session.
MaxInits == 1

MaxNexts == 3

MaxShuts == 2

\* Packets read by one next() before the one that gives the picture: those
\* of other streams and those the decoder has no picture for yet.
MaxSkips == 1

\* How many calls are made on one LockFile handle.
MaxLockCalls == 4

\* Largest small width or height, and longest buffer, handed to
\* Encoding::frame_from_slice.
MaxDim == 2

MaxLen == 12

\* ------------------------------------------------------- program constants

\* Integers up to 2^24 are exact in an f32 (24-bit significand).
F32Exact == 16777216

\* ---------------------------------------------------------------- state

VARIABLES
    input,      \* the TimeProbeConfig handed to TimeProbe::new
    probe,      \* the TimeProbe: config, reference, moment, last, sampled
    clock,      \* the monotonic clock, in ticks
    ppc,        \* "ready": no pull in progress; "loop": inside next()'s loop
    op,         \* the last operation: "new", "next", "poll", "sync", "elapse"
    ret,        \* what the last TimeProbe call returned
    emitted,    \* number of snapshots returned so far
    snap,       \* the last snapshot returned
    prev,       \* the snapshot returned before it
    syncs,      \* number of sync_network_time calls so far
    synced,     \* number of those that succeeded
    ended,      \* whether next() has returned None (end of sequence)
    apc,        \* where App::run is ("none": no App, a TimeProbe on its own)
    manifest,   \* the manifest and the replay folder the App runs on
    camera,     \* the MockCamera: offset, repeat, frames, active
    marker,     \* whether the lock file exists
    result,     \* what App::run returned ("running" until it returns)
    pulls,      \* number of probe.next() calls App::run has made
    captured,   \* number of frames camera.next() has returned to App::run
    persisted,  \* number of frames image_logger.save has written
    shutdowns,  \* number of camera.shutdown() calls
    avcam,      \* the AvCamera: buffer, capture
    native,     \* the ledger of native (libav) resources
    sess,       \* the Capture Session under test and the calls made on it
    enc,        \* a call of Encoding::frame_from_slice: input and outcome
    flag,       \* the reads of the lock file by App::run, and its removal
    lockf       \* a LockFile handle on the lock file: the calls made on it

pvars ==
    <<input, probe, clock, ppc, op, ret, emitted, snap, prev, syncs, synced,
      ended>>

avars ==
    <<apc, manifest, camera, marker, result, pulls, captured, persisted,
      shutdowns>>

hvars == <<avcam, native, sess, enc>>

vars == <<pvars, avars, hvars, flag, lockf>>

\* ------------------------------------------------------------ f32 arithmetic

\* The spacing of f32 values around the non-negative integer n.
RECURSIVE F32Ulp(_)
F32Ulp(n) == IF n < F32Exact THEN 1 ELSE 2 * F32Ulp(n \div 2)

\* `n as f32`: round to nearest representable value, ties to even.
AsF32(n) ==
    LET u == F32Ulp(n)
        q == n \div u
        r == n % u
    IN  IF 2 * r < u THEN q * u
        ELSE IF 2 * r > u THEN (q + 1) * u
        ELSE IF q % 2 = 0 THEN q * u
        ELSE (q + 1) * u

\* (ms as f32 * time_scale).floor() as u128, for time_scale = num/den with
\* den a power of two (the product is rounded to f32 once more).
ScaleMs(ms, ts) == AsF32(AsF32(ms) * ts[1]) \div ts[2]

\* Duration::as_millis of (now - then): whole milliseconds, truncated.
AsMillis(now, then) == (now - then) \div Res

\* ------------------------------------------------------------- the configs

One == <<1, 1>>

\* time_scale values: -1, 0 (both normalised by new), 1/2, 1 and 5.
TimeScales == {<<-1, 1>>, <<0, 1>>, <<1, 2>>, One, <<5, 1>>}

Intervals == (0 .. MaxInterval) \cup {F32Exact}

Configs ==
    [interval : Intervals, idle : 0 .. MaxIdle, samples : -1 .. MaxSamples,
     time_scale : TimeScales]

NoSnapshot == [timestamp |-> 0, elapsed |-> 0, epoch |-> 0]

\* The clock values the model explores.
InBounds(t) ==
    /\ t % (F32Exact * Res) <= MaxTicks
    /\ t \div (F32Exact * Res) <= MaxJumps

\* ------------------------------------------------------------- TimeProbe

\* A TimeProbe::new that tests `time_scale < 0`: a time_scale of 0 is kept.
TimeProbe_new_KeepsZero(cfg, t1, t2, wall) ==
    [config    |-> IF cfg.time_scale[1] < 0
                   THEN [cfg EXCEPT !.time_scale = One] ELSE cfg,
     moment    |-> t1,
     last      |-> t2,
     reference |-> wall * 1000,
     sampled   |-> 0]

\* TimeProbe::new: time_scale <= 0 becomes 1; moment and last are two
\* successive clock reads, t1 <= t2.
TimeProbe_new(cfg, t1, t2, wall) ==
    [config    |-> IF cfg.time_scale[1] <= 0
                   THEN [cfg EXCEPT !.time_scale = One] ELSE cfg,
     moment    |-> t1,
     last      |-> t2,
     reference |-> wall * 1000,
     sampled   |-> 0]

\* An as_snapshot that forgets the reference in the timestamp.
as_snapshot_NoReference(p, ms_since_spawn) ==
    [timestamp |-> ms_since_spawn,
     elapsed   |-> ms_since_spawn,
     epoch     |-> synced]

\* TimeProbe::as_snapshot
as_snapshot(p, ms_since_spawn) ==
    [timestamp |-> p.reference + ms_since_spawn,
     elapsed   |-> ms_since_spawn,
     epoch     |-> synced]

\* The test at the top of TimeProbe::next: the iterator is exhausted.
Exhausted(p) == p.config.samples > 0 /\ p.sampled >= p.config.samples

\* A test that scales by time_scale truncated to an integer.
Due_TruncatedScale(p, now) ==
    AsMillis(now, p.last) * (p.config.time_scale[1] \div p.config.time_scale[2])
        > p.config.interval

\* The test inside the loop: more than interval scaled ms since last.
Due(p, now) ==
    ScaleMs(AsMillis(now, p.last), p.config.time_scale) > p.config.interval

\* A loop that starts the elapsed time again at every snapshot.
LoopBody_MovesMoment ==
    IF Due(probe, clock)
    THEN /\ probe' = [probe EXCEPT !.sampled = @ + 1, !.last = clock,
                                   !.moment = clock]
         /\ snap' = as_snapshot(probe,
                ScaleMs(AsMillis(clock, probe.moment), probe.config.time_scale))
         /\ prev' = snap
         /\ emitted' = emitted + 1
         /\ ret' = "Some"
         /\ ppc' = "ready"
         /\ clock' = clock
    ELSE /\ clock' = clock + probe.config.idle * Res
         /\ ret' = "pending"
         /\ ppc' = "loop"
         /\ UNCHANGED <<probe, snap, prev, emitted>>

\* One iteration of the loop of TimeProbe::next.
LoopBody ==
    IF Due(probe, clock)
    THEN /\ probe' = [probe EXCEPT !.sampled = @ + 1, !.last = clock]
         /\ snap' = as_snapshot(probe,
                ScaleMs(AsMillis(clock, probe.moment), probe.config.time_scale))
         /\ prev' = snap
         /\ emitted' = emitted + 1
         /\ ret' = "Some"
         /\ ppc' = "ready"
         /\ clock' = clock
    ELSE /\ clock' = clock + probe.config.idle * Res
         /\ ret' = "pending"
         /\ ppc' = "loop"
         /\ UNCHANGED <<probe, snap, prev, emitted>>

\* A call of TimeProbe::next, up to its first return or sleep.
TimeProbe_next ==
    /\ ppc = "ready"
    /\ op' = "next"
    /\ IF Exhausted(probe)
       THEN /\ ret' = "None"
            /\ ended' = TRUE
            /\ UNCHANGED <<probe, clock, ppc, emitted, snap, prev>>
       ELSE LoopBody /\ UNCHANGED ended
    /\ UNCHANGED <<input, syncs, synced>>

\* A later iteration of the loop, after a sleep.
TimeProbe_poll ==
    /\ ppc = "loop"
    /\ op' = "poll"
    /\ LoopBody
    /\ UNCHANGED <<input, syncs, synced, ended>>

\* A sync_network_time that also starts the sample count again.
sync_network_time_ok_ResetsSampled(sec, gap) ==
    /\ ppc = "ready"
    /\ probe' = [probe EXCEPT !.reference = sec * 1000, !.sampled = 0,
                              !.moment = clock, !.last = clock + gap]
    /\ clock' = clock + gap
    /\ syncs' = syncs + 1
    /\ synced' = synced + 1
    /\ op' = "sync"
    /\ ret' = "Ok"
    /\ UNCHANGED <<input, ppc, emitted, snap, prev, ended>>

\* TimeProbe::sync_network_time, the lookup succeeding with `sec`.
sync_network_time_ok(sec, gap) ==
    /\ ppc = "ready"
    /\ probe' = [probe EXCEPT !.reference = sec * 1000,
                              !.moment = clock, !.last = clock + gap]
    /\ clock' = clock + gap
    /\ syncs' = syncs + 1
    /\ synced' = synced + 1
    /\ op' = "sync"
    /\ ret' = "Ok"
    /\ UNCHANGED <<input, ppc, emitted, snap, prev, ended>>

\* TimeProbe::sync_network_time, the lookup failing: `?` returns the error.
sync_network_time_err ==
    /\ ppc = "ready"
    /\ syncs' = syncs + 1
    /\ op' = "sync"
    /\ ret' = "Err"
    /\ UNCHANGED <<input, probe, clock, ppc, emitted, snap, prev, synced, ended>>

\* Time passes: one tick, or a long pause of 2^24 ms.
Elapse(d) ==
    /\ clock' = clock + d
    /\ op' = "elapse"
    /\ UNCHANGED <<input, probe, ppc, ret, emitted, snap, prev, syncs, synced,
                   ended>>

\* ------------------------------------------------------------ MockCamera

\* MockCamera::default
MockCamera_default == [offset |-> -1, repeat |-> FALSE, frames |-> <<>>, active |-> 0]

\* ResourceFolder::enumerate_files: the directory's entries (files are named
\* by numbers), sorted by file name.
enumerate_files_Unsorted(listing) == listing

enumerate_files(listing) == SortSeq(listing, LAMBDA a, b : a < b)

\* MockCamera::initialize: without `use_mock_folder` nothing is loaded; a
\* folder that does not exist is an error.
MockCamera_initialize(cam, m) ==
    IF m.folder = "none" THEN [cam |-> cam, res |-> "Ok"]
    ELSE IF m.folder = "missing" THEN [cam |-> cam, res |-> "InvalidSettings"]
    ELSE [cam |-> [cam EXCEPT !.frames = enumerate_files(m.listing),
                              !.repeat = m.repeat,
                              !.offset = -1],
          res |-> "Ok"]

\* MockCamera::read_frame of the entry at the cursor; indexing past the end
\* of `frames` panics, a file in `bad` does not decode.
read_frame(cam, bad) ==
    IF cam.offset >= Len(cam.frames) THEN [cam |-> cam, res |-> "panic"]
    ELSE LET entry == cam.frames[cam.offset + 1]
         IN  IF entry \in bad
             THEN [cam |-> cam, res |-> "FailedToEncodeFrame"]
             ELSE [cam |-> [cam EXCEPT !.active = entry], res |-> "Ok"]

\* MockCamera::next
MockCamera_next_NoWrap(cam, bad) ==
    LET moved == [cam EXCEPT !.offset = @ + 1]
    IN  IF moved.offset >= Len(moved.frames)
        THEN [cam |-> moved, res |-> "DeviceNoLongerAvailable"]
        ELSE read_frame(moved, bad)

\* A next that moves the cursor only when the image was read.
MockCamera_next_AdvanceOnSuccess(cam, bad) ==
    LET moved == [cam EXCEPT !.offset = @ + 1]
        r     == IF moved.offset >= Len(moved.frames)
                 THEN IF moved.repeat
                      THEN read_frame([moved EXCEPT !.offset = 0], bad)
                      ELSE [cam |-> moved, res |-> "DeviceNoLongerAvailable"]
                 ELSE read_frame(moved, bad)
    IN  IF r.res = "FailedToEncodeFrame" THEN [cam |-> cam, res |-> r.res] ELSE r

MockCamera_next(cam, bad) ==
    LET moved == [cam EXCEPT !.offset = @ + 1]
    IN  IF moved.offset >= Len(moved.frames)
        THEN IF moved.repeat
             THEN read_frame([moved EXCEPT !.offset = 0], bad)
             ELSE [cam |-> moved, res |-> "DeviceNoLongerAvailable"]
        ELSE read_frame(moved, bad)

\* MockCamera::shutdown
MockCamera_shutdown(cam) == [cam |-> cam, res |-> "Ok"]

\* ---------------------------------------------------------------- App::run

\* The manifests: scheduling parameters, whether to use NTP, and the replay
\* folder: not configured ("none"), configured but absent ("missing"), or a
\* directory ("dir") whose entries read_dir lists as `listing`, those in
\* `bad` not being decodable images.
Listings ==
    UNION { { l \in [1 .. k -> 1 .. k] : \A i, j \in 1 .. k : l[i] = l[j] => i = j }
            : k \in 0 .. MaxFiles }

Manifests ==
    { [use_ntp |-> n, sample_interval |-> i, sample_idle |-> d, folder |-> f,
       listing |-> l, bad |-> b, repeat |-> r] :
        n \in BOOLEAN, i \in 0 .. MaxInterval, d \in 0 .. MaxIdle,
        f \in {"none", "missing", "dir"}, l \in Listings,
        b \in SUBSET (1 .. MaxFiles), r \in BOOLEAN }

\* Of the manifests that differ only in what is never read, one is kept.
Manifest(m) ==
    /\ m \in Manifests
    /\ m.bad \subseteq 1 .. Len(m.listing)
    /\ m.folder # "dir" => (m.listing = <<>> /\ ~m.repeat)

NoManifest ==
    [use_ntp |-> FALSE, sample_interval |-> 0, sample_idle |-> 0,
     folder |-> "none", listing |-> <<>>, bad |-> {}, repeat |-> FALSE]

NoConfig == [interval |-> 0, idle |-> 0, samples |-> 0, time_scale |-> One]

NoProbe ==
    [config |-> NoConfig, moment |-> 0, last |-> 0, reference |-> 0, sampled |-> 0]

\* CameraFactory::create_camera: a MockCamera is built and initialized; an
\* error of initialize is returned by run.
App_create_camera ==
    /\ apc = "create_camera"
    /\ LET r == MockCamera_initialize(MockCamera_default, manifest)
       IN  /\ camera' = r.cam
           /\ apc' = IF r.res = "Ok" THEN "new_probe" ELSE "done"
           /\ result' = IF r.res = "Ok" THEN result ELSE "DeviceFailed"
    /\ UNCHANGED <<pvars, manifest, marker, pulls, captured, persisted, shutdowns>>

\* TimeProbe::new with time_scale 1, samples -1 and the manifest's interval
\* and idle.
App_new_probe(gap) ==
    /\ apc = "new_probe"
    /\ LET cfg == [time_scale |-> One, interval |-> manifest.sample_interval,
                   idle |-> manifest.sample_idle, samples |-> -1]
       IN  /\ input' = cfg
           /\ probe' = TimeProbe_new(cfg, clock, clock + gap, WallSec)
    /\ clock' = clock + gap
    /\ op' = "new"
    /\ ret' = "Ok"
    /\ apc' = IF manifest.use_ntp THEN "sync" ELSE "lock"
    /\ UNCHANGED <<ppc, emitted, snap, prev, syncs, synced, ended>>
    /\ UNCHANGED <<manifest, camera, marker, result, pulls, captured, persisted,
                   shutdowns>>

\* probe.sync_network_time("pool.ntp.org")? succeeding.
App_sync_ok(sec, gap) ==
    /\ apc = "sync"
    /\ sync_network_time_ok(sec, gap)
    /\ apc' = "lock"
    /\ UNCHANGED <<manifest, camera, marker, result, pulls, captured, persisted,
                   shutdowns>>

\* A run that goes on after a failed sync.
App_sync_err_Ignored ==
    /\ apc = "sync"
    /\ sync_network_time_err
    /\ apc' = "lock"
    /\ UNCHANGED <<manifest, camera, marker, result, pulls, captured, persisted,
                   shutdowns>>

\* probe.sync_network_time("pool.ntp.org")? failing: run returns the error.
App_sync_err ==
    /\ apc = "sync"
    /\ sync_network_time_err
    /\ apc' = "done"
    /\ result' = "NetworkFailed"
    /\ UNCHANGED <<manifest, camera, marker, pulls, captured, persisted, shutdowns>>

\* run_lock.lock()?: the lock file is written unless it exists.
App_lock_ok ==
    /\ apc = "lock"
    /\ marker' = TRUE
    /\ apc' = "pull"
    /\ UNCHANGED <<pvars, manifest, camera, result, pulls, captured, persisted,
                   shutdowns>>

\* run_lock.lock()?: writing the lock file fails, run returns the error.
App_lock_err ==
    /\ apc = "lock"
    /\ ~marker
    /\ apc' = "done"
    /\ result' = "LockFailed"
    /\ UNCHANGED <<pvars, manifest, camera, marker, pulls, captured, persisted,
                   shutdowns>>

\* `for sample in probe`: the call of probe.next().
App_pull ==
    /\ apc = "pull"
    /\ TimeProbe_next
    /\ pulls' = pulls + 1
    /\ apc' = IF ret' = "Some" THEN "capture"
              ELSE IF ret' = "None" THEN "shutdown" ELSE "polling"
    /\ UNCHANGED <<manifest, camera, marker, result, captured, persisted, shutdowns>>

\* probe.next() polling on.
App_poll ==
    /\ apc = "polling"
    /\ TimeProbe_poll
    /\ apc' = IF ret' = "Some" THEN "capture" ELSE "polling"
    /\ UNCHANGED <<manifest, camera, marker, result, pulls, captured, persisted,
                   shutdowns>>

\* A run that hands to persistence whatever the capture gave.
App_capture_SavesAnyway ==
    /\ apc = "capture"
    /\ LET r == MockCamera_next(camera, manifest.bad)
       IN  /\ camera' = r.cam
           /\ captured' = IF r.res = "Ok" THEN captured + 1 ELSE captured
           /\ apc' = "save"
           /\ result' = result
    /\ UNCHANGED <<pvars, manifest, marker, pulls, persisted, shutdowns>>

\* camera.next()?: an error is returned by run.
App_capture ==
    /\ apc = "capture"
    /\ LET r == MockCamera_next(camera, manifest.bad)
       IN  /\ camera' = r.cam
           /\ captured' = IF r.res = "Ok" THEN captured + 1 ELSE captured
           /\ apc' = IF r.res = "Ok" THEN "save" ELSE "done"
           /\ result' = IF r.res = "Ok" THEN result
                        ELSE IF r.res = "panic" THEN "panic" ELSE "DeviceFailed"
    /\ UNCHANGED <<pvars, manifest, marker, pulls, persisted, shutdowns>>

\* A run that pulls the next tick right after the save.
App_save_ok_SkipsCheck ==
    /\ apc = "save"
    /\ persisted' = persisted + 1
    /\ apc' = "pull"
    /\ UNCHANGED <<pvars, manifest, camera, marker, result, pulls, captured,
                   shutdowns>>

\* image_logger.save(frame, sample)? succeeding.
App_save_ok ==
    /\ apc = "save"
    /\ persisted' = persisted + 1
    /\ apc' = "check"
    /\ UNCHANGED <<pvars, manifest, camera, marker, result, pulls, captured,
                   shutdowns>>

\* A run that removes the lock file when it gives up.
App_save_err_Unlocks ==
    /\ apc = "save"
    /\ apc' = "done"
    /\ result' = "OutputError"
    /\ marker' = FALSE
    /\ UNCHANGED <<pvars, manifest, camera, pulls, captured, persisted,
                   shutdowns>>

\* image_logger.save(frame, sample)? failing: run returns the error.
App_save_err ==
    /\ apc = "save"
    /\ apc' = "done"
    /\ result' = "OutputError"
    /\ UNCHANGED <<pvars, manifest, camera, marker, pulls, captured, persisted,
                   shutdowns>>

\* A run that returns from inside the loop when the lock file is away.
App_check_ReturnsAtOnce ==
    /\ apc = "check"
    /\ apc' = IF marker THEN "pull" ELSE "done"
    /\ result' = IF marker THEN result ELSE "Ok"
    /\ UNCHANGED <<pvars, manifest, camera, marker, pulls, captured,
                   persisted, shutdowns>>

\* A run that takes one more sample after the lock file was found away.
App_check_OneMore ==
    /\ apc = "check"
    /\ apc' = IF marker \/ flag.removed = flag.reads THEN "pull" ELSE "shutdown"
    /\ UNCHANGED <<pvars, manifest, camera, marker, result, pulls, captured,
                   persisted, shutdowns>>

\* if !run_lock.is_locked() { break; }
App_check ==
    /\ apc = "check"
    /\ apc' = IF marker THEN "pull" ELSE "shutdown"
    /\ UNCHANGED <<pvars, manifest, camera, marker, result, pulls, captured,
                   persisted, shutdowns>>

\* camera.shutdown()?; Ok(())
App_shutdown ==
    /\ apc = "shutdown"
    /\ LET r == MockCamera_shutdown(camera)
       IN  /\ camera' = r.cam
           /\ result' = IF r.res = "Ok" THEN "Ok" ELSE "DeviceFailed"
    /\ shutdowns' = shutdowns + 1
    /\ apc' = "done"
    /\ UNCHANGED <<pvars, manifest, marker, pulls, captured, persisted>>

\* No is_locked() call made, the lock file not removed by anybody and not
\* written by lock().
NoFlag == [reads |-> 0, removed |-> -1, wrote |-> FALSE]

\* Somebody removes the lock file.
MarkerRemoved ==
    /\ marker
    /\ marker' = FALSE
    /\ UNCHANGED <<pvars, apc, manifest, camera, result, pulls, captured,
                   persisted, shutdowns>>

\* ---------------------------------------------------------------- LockFile

\* A LockFile handle on which nothing has been called: `pc` is where a
\* call stands between its two file system operations, `last` the last
\* thing that happened (a call returning, or the file created or removed by
\* somebody else), `before` the one before it, `locked` what the last
\* is_locked() returned, `calls` the number of calls begun.
NoLock ==
    [pc |-> "idle", last |-> "none", before |-> "none", locked |-> FALSE,
     calls |-> 0]

\* The event e is recorded.
Happened(l, e) == [l EXCEPT !.last = e, !.before = l.last]

\* LockFile::lock, `self.path.exists()`: an existing file is left alone and
\* Ok is returned.
LockFile_lock ==
    /\ lockf.pc = "idle"
    /\ lockf' = IF marker
                THEN Happened([lockf EXCEPT !.calls = @ + 1], "lock_ok")
                ELSE [lockf EXCEPT !.calls = @ + 1, !.pc = "write"]
    /\ UNCHANGED marker

\* A lock that returns Ok without writing the file.
LockFile_lock_write_NoWrite(ok) ==
    /\ lockf.pc = "write"
    /\ UNCHANGED marker
    /\ lockf' = Happened([lockf EXCEPT !.pc = "idle"],
                         IF ok THEN "lock_ok" ELSE "lock_err")

\* LockFile::lock, `fs::write(&self.path, b"LOCK")?`: the file is created
\* (or overwritten, when somebody created it meanwhile), or the write
\* fails and the error is returned.
LockFile_lock_write(ok) ==
    /\ lockf.pc = "write"
    /\ marker' = IF ok THEN TRUE ELSE marker
    /\ lockf' = Happened([lockf EXCEPT !.pc = "idle"],
                         IF ok THEN "lock_ok" ELSE "lock_err")

\* LockFile::is_locked
LockFile_is_locked ==
    /\ lockf.pc = "idle"
    /\ lockf' = Happened([lockf EXCEPT !.calls = @ + 1, !.locked = marker],
                         "is_locked")
    /\ UNCHANGED marker

\* LockFile::unlock, `self.path.exists()`: without a file Ok is returned.
LockFile_unlock ==
    /\ lockf.pc = "idle"
    /\ lockf' = IF marker
                THEN [lockf EXCEPT !.calls = @ + 1, !.pc = "remove"]
                ELSE Happened([lockf EXCEPT !.calls = @ + 1], "unlock_ok")
    /\ UNCHANGED marker

\* LockFile::unlock, `fs::remove_file(&self.path)?`: the file is removed;
\* when it is gone meanwhile, or the removal fails, the error is returned.
LockFile_unlock_remove(ok) ==
    /\ lockf.pc = "remove"
    /\ marker' = IF ok THEN FALSE ELSE marker
    /\ lockf' = Happened([lockf EXCEPT !.pc = "idle"],
                         IF ok /\ marker THEN "unlock_ok" ELSE "unlock_err")

\* Somebody else creates the lock file.
MarkerCreated ==
    /\ ~marker
    /\ marker' = TRUE
    /\ lockf' = Happened(lockf, "created")

\* Somebody else removes the lock file while a LockFile handle is used.
MarkerRemovedByOther ==
    /\ marker
    /\ marker' = FALSE
    /\ lockf' = Happened(lockf, "removed")

\* ---------------------------------------------------------------- Encoding

\* The lengths and dimensions are u32 and usize values; no product of the
\* explored ones reaches 2^32, where u32 arithmetic wraps (release build) or
\* panics (debug build).

\* image::ImageBuffer::from_raw(dx, dy, bytes) as frame_from_slice calls it:
\* the container is taken when it is at least dx * dy * 3 long.
from_raw(dx, dy, len) ==
    IF dx * dy * 3 <= len
    THEN [res |-> "Ok", width |-> dx, height |-> dy, len |-> len]
    ELSE [res |-> "InvalidBufferData", width |-> 0, height |-> 0, len |-> 0]

EncodingFailed(e) == [res |-> e, width |-> 0, height |-> 0, len |-> 0]

\* The second half of frame_from_slice: the length test against the
\* dimensions (dx, dy) it settled on, then from_raw.
frame_with_NoLengthCheck(len, dx, dy) == from_raw(dx, dy, len)

frame_with(len, dx, dy) ==
    IF len # dx * dy * 3 THEN EncodingFailed("InvalidLength")
    ELSE from_raw(dx, dy, len)

\* Encoding::frame_from_slice(bytes, width, height), the buffer given by its
\* length: when the length is not width * height * 3 the width is
\* recomputed from the length and the height (a division by zero, a panic,
\* when the height is 0).
frame_from_slice(len, width, height) ==
    IF len # width * height * 3
    THEN IF height = 0 THEN EncodingFailed("panic")
         ELSE frame_with(len, (len \div height) \div 3, height)
    ELSE frame_with(len, width, height)

NoEncoding ==
    [len |-> 0, width |-> 0, height |-> 0, done |-> FALSE,
     out |-> EncodingFailed("none")]

\* One call of frame_from_slice on the chosen input.
Encoding_frame_from_slice ==
    /\ ~enc.done
    /\ enc' = [enc EXCEPT !.done = TRUE,
                          !.out = frame_from_slice(enc.len, enc.width,
                                                   enc.height)]

\* ------------------------------------------------- AvCamera: the settings

\* The characters a `resolution` value is written with in the explored
\* settings ("+" is no digit: u32's FromStr takes it in front only).
Chars == {"1", "x", "+"}

DigitChars == <<"0", "1", "2", "3", "4", "5", "6", "7", "8", "9">>

IsDigit(c) == \E d \in 1 .. 10 : DigitChars[d] = c

DigitValue(c) == (CHOOSE d \in 1 .. 10 : DigitChars[d] = c) - 1

\* value.split("x"): the pieces between the separators, at least one.
RECURSIVE Split(_)
Split(s) ==
    IF s = <<>> THEN << <<>> >>
    ELSE LET rest == Split(Tail(s))
         IN  IF Head(s) = "x" THEN << <<>> >> \o rest
             ELSE << <<Head(s)>> \o Head(rest) >> \o Tail(rest)

RECURSIVE DecimalValue(_)
DecimalValue(s) ==
    IF s = <<>> THEN 0
    ELSE 10 * DecimalValue(SubSeq(s, 1, Len(s) - 1)) + DigitValue(s[Len(s)])

\* str::parse::<u32>: an optional "+", then one digit or more; -1 stands for
\* Err (a value of 2^32 or more is an Err too: no explored one is so long).
parse_u32(s) ==
    LET body == IF s # <<>> /\ Head(s) = "+" THEN Tail(s) ELSE s
    IN  IF body = <<>> THEN -1
        ELSE IF \E i \in 1 .. Len(body) : ~IsDigit(body[i]) THEN -1
        ELSE DecimalValue(body)

\* AvCamera::as_resolution_tuple
as_resolution_tuple(value) ==
    LET parts == Split(value)
    IN  IF Len(parts) # 2 THEN [res |-> "InvalidSettings", size |-> <<0, 0>>]
        ELSE IF parse_u32(parts[1]) < 0
        THEN [res |-> "InvalidSettings", size |-> <<0, 0>>]
        ELSE IF parse_u32(parts[2]) < 0
        THEN [res |-> "InvalidSettings", size |-> <<0, 0>>]
        ELSE [res |-> "Ok", size |-> <<parse_u32(parts[1]), parse_u32(parts[2])>>]

\* The `resolution` used when the key is absent: "640x480".
DefaultResolution == <<"6", "4", "0", "x", "4", "8", "0">>

ResolutionValues ==
    UNION { [1 .. k -> Chars] : k \in 0 .. MaxResLen }

\* The settings initialize reads: `resolution` (<<>>: the key is absent,
\* <<v>>: its value is v) and `framerate` (absent, not a number, a number).
AvConfigs ==
    { [resolution |-> r, framerate |-> f] :
        r \in {<<>>} \cup { <<v>> : v \in ResolutionValues },
        f \in {"absent", "bad", "ok"} }

\* --------------------------------------- Capture: the native resources

\* The kinds of native (libav) resources a Capture acquires.
Kinds ==
    {"context", "options", "input", "decoder", "packet", "packet_buf",
     "frame", "scratch", "scaler"}

\* The ledger of the native resources: acquisitions and releases per kind
\* and the releases in the order they were made.
NoNative ==
    [acq |-> [k \in Kinds |-> 0], rel |-> [k \in Kinds |-> 0], order |-> <<>>]

Acquire(n, k) == [n EXCEPT !.acq[k] = @ + 1]

Release(n, k) == [n EXCEPT !.rel[k] = @ + 1, !.order = Append(@, k)]

Live(n, k) == n.acq[k] - n.rel[k]

\* Capture::new
Capture_new(size) ==
    [resolution |-> size, context |-> FALSE, input |-> FALSE, packet |-> FALSE,
     frame |-> FALSE, transcode_frame |-> FALSE, codec_context |-> FALSE,
     held |-> FALSE]

\* Where an open sequence fails ("none": nowhere).
Fails ==
    {"none", "backend_nul", "backend", "pixel_format_nul", "device_nul",
     "open", "stream_info", "no_video", "no_decoder", "decoder_open"}

\* Capture::open_device.  The option dictionary comes to be with the first
\* av_dict_set; avformat_open_input frees the context when it fails and,
\* when it succeeds, leaves in the dictionary the options the device did
\* not take (`left`: there are some).
open_device(cap, n, fail, left) ==
    LET n1 == Acquire(n, "options")
        n2 == Acquire(n1, "input")
        n3 == IF left THEN n2 ELSE Release(n2, "options")
        n4 == Acquire(Acquire(Acquire(n3, "decoder"), "packet"), "frame")
    IN  IF fail \in {"pixel_format_nul", "device_nul"}
        THEN [cap |-> cap, native |-> n1, res |-> "NullPointer"]
        ELSE IF fail = "open"
        THEN [cap |-> cap, native |-> Release(n1, "context"), res |-> "NativeError"]
        ELSE IF fail = "stream_info"
        THEN [cap |-> cap, native |-> n3, res |-> "NativeError"]
        ELSE IF fail = "no_video"
        THEN [cap |-> cap, native |-> n3, res |-> "MissingStream"]
        ELSE IF fail = "no_decoder"
        THEN [cap |-> cap, native |-> n3, res |-> "MissingCodec"]
        ELSE IF fail = "decoder_open"
        THEN [cap |-> cap, native |-> n3, res |-> "NativeError"]
        ELSE [cap |-> [cap EXCEPT !.codec_context = TRUE, !.packet = TRUE,
                                  !.frame = TRUE],
              native |-> n4, res |-> "Ok"]

\* Capture::init
Capture_init(cap, n, fail, left) ==
    LET n1   == Acquire(n, "context")
        cap1 == [cap EXCEPT !.context = TRUE]
    IN  IF fail = "backend_nul"
        THEN [cap |-> cap1, native |-> n1, res |-> "NullPointer"]
        ELSE IF fail = "backend"
        THEN [cap |-> cap1, native |-> n1, res |-> "InvalidDriver"]
        ELSE open_device([cap1 EXCEPT !.input = TRUE], n1, fail, left)

\* Capture::shutdown: the decoder, the decode frame, the scratch frame, the
\* packet (av_packet_free also drops the data it holds) and the input with
\* its format context (avformat_close_input), each if it is there.
Capture_shutdown(cap, n) ==
    LET n1 == IF cap.codec_context THEN Release(n, "decoder") ELSE n
        n2 == IF cap.frame THEN Release(n1, "frame") ELSE n1
        n3 == IF cap.transcode_frame THEN Release(n2, "scratch") ELSE n2
        n4 == IF cap.packet /\ cap.held THEN Release(n3, "packet_buf") ELSE n3
        n5 == IF cap.packet THEN Release(n4, "packet") ELSE n4
        n6 == IF cap.context THEN Release(Release(n5, "input"), "context") ELSE n5
    IN  n6

\* Capture::convert_frame: a scaler context is made on every call; the
\* scratch frame is made when there is none yet and used again otherwise.
convert_frame_AlwaysAllocates(cap, n) ==
    [cap |-> [cap EXCEPT !.transcode_frame = TRUE],
     native |-> Acquire(Acquire(n, "scaler"), "scratch")]

convert_frame(cap, n) ==
    LET n1 == Acquire(n, "scaler")
    IN  IF cap.transcode_frame
        THEN [cap |-> cap, native |-> n1]
        ELSE [cap |-> [cap EXCEPT !.transcode_frame = TRUE],
              native |-> Acquire(n1, "scratch")]

\* What one run of the loop of capture_next_frame meets after `skips`
\* packets of other streams and `waits` packets the decoder has no picture
\* for yet: the read failing for ever ("blocked"), the decoder failing, a
\* picture of another geometry than the buffer, the copy failing, or a
\* frame.
Outcomes == {"ok", "blocked", "decode_failed", "size_mismatch", "copy_failed"}

\* k packets read and unreferenced again.
RECURSIVE ReadAndUnref(_, _)
ReadAndUnref(n, k) ==
    IF k = 0 THEN n
    ELSE ReadAndUnref(Release(Acquire(n, "packet_buf"), "packet_buf"), k - 1)

\* Capture::capture_next_frame.  Each av_read_frame that succeeds fills the
\* packet with new data (what it held and was not unreferenced stays
\* allocated); a packet of another stream is passed over as it is, a packet
\* without a picture is unreferenced and the loop goes on, and of the paths
\* that leave the loop only the one that ends in a frame unreferences the
\* packet.  (The packets of other streams are taken to come first.)
capture_next_frame_SkipIsError(cap, n, skips, waits, outcome) ==
    [cap |-> cap, native |-> n,
     res |-> IF skips + waits > 0 THEN "NativeError" ELSE "Ok"]

capture_next_frame(cap, n, skips, waits, outcome) ==
    LET got  == ReadAndUnref([n EXCEPT !.acq["packet_buf"] = @ + skips], waits)
        kept == [cap EXCEPT !.held = IF waits > 0 THEN FALSE
                                     ELSE (cap.held \/ skips > 0)]
        rd   == Acquire(got, "packet_buf")
        full == [kept EXCEPT !.held = TRUE]
        cv   == convert_frame(full, rd)
    IN  IF ~(cap.context /\ cap.packet /\ cap.codec_context /\ cap.frame)
        THEN [cap |-> cap, native |-> n, res |-> "NullPointer"]
        ELSE IF outcome = "blocked"
        THEN [cap |-> kept, native |-> got, res |-> "blocked"]
        ELSE IF outcome = "decode_failed"
        THEN [cap |-> full, native |-> rd, res |-> "NativeError"]
        ELSE IF outcome = "size_mismatch"
        THEN [cap |-> cv.cap, native |-> cv.native, res |-> "InvalidBuffer"]
        ELSE IF outcome = "copy_failed"
        THEN [cap |-> cv.cap, native |-> cv.native, res |-> "NativeError"]
        ELSE [cap |-> [cv.cap EXCEPT !.held = FALSE],
              native |-> Release(cv.native, "packet_buf"), res |-> "Ok"]

\* Capture::read
Capture_read(cap, n, skips, waits, outcome) ==
    IF ~cap.context THEN [cap |-> cap, native |-> n, res |-> "NotReady"]
    ELSE capture_next_frame(cap, n, skips, waits, outcome)

\* --------------------------------------------------------------- AvCamera

\* AvCamera::default: buffer and capture are None (<<>>; <<v>> is Some(v)).
AvCamera_default == [buffer |-> <<>>, capture |-> <<>>]

NoFrame == [width |-> 0, height |-> 0, len |-> 0]

\* AvCamera::initialize.  The settings are read in the order backend,
\* device, resolution, framerate (get_u32 indexes the map: no `framerate`
\* key is a panic); the buffer is stored before Capture::init runs, the
\* capture after it has succeeded; a Capture whose init failed is dropped
\* as it is.  No product of the explored sizes reaches 2^32.
AvCamera_initialize_BufferFirst(av, n, cfg, fail, left) ==
    LET value == IF cfg.resolution = <<>> THEN DefaultResolution
                 ELSE cfg.resolution[1]
        rt    == as_resolution_tuple(value)
        size  == rt.size[1] * rt.size[2] * 3
        av1   == [av EXCEPT !.buffer = <<size>>]
        r     == Capture_init(Capture_new(rt.size), n, fail, left)
    IN  IF rt.res # "Ok"
        THEN [av |-> av1, native |-> n, res |-> "InvalidSettings"]
        ELSE IF cfg.framerate = "absent"
        THEN [av |-> av, native |-> n, res |-> "panic"]
        ELSE IF r.res # "Ok"
        THEN [av |-> av1, native |-> r.native, res |-> "DeviceFailed"]
        ELSE [av |-> [av1 EXCEPT !.capture = <<r.cap>>], native |-> r.native,
              res |-> "Ok"]

AvCamera_initialize(av, n, cfg, fail, left) ==
    LET value == IF cfg.resolution = <<>> THEN DefaultResolution
                 ELSE cfg.resolution[1]
        rt    == as_resolution_tuple(value)
        size  == rt.size[1] * rt.size[2] * 3
        av1   == [av EXCEPT !.buffer = <<size>>]
        r     == Capture_init(Capture_new(rt.size), n, fail, left)
    IN  IF rt.res # "Ok"
        THEN [av |-> av, native |-> n, res |-> "InvalidSettings"]
        ELSE IF cfg.framerate = "absent"
        THEN [av |-> av, native |-> n, res |-> "panic"]
        ELSE IF r.res # "Ok"
        THEN [av |-> av1, native |-> r.native, res |-> "DeviceFailed"]
        ELSE [av |-> [av1 EXCEPT !.capture = <<r.cap>>], native |-> r.native,
              res |-> "Ok"]

\* AvCamera::shutdown
AvCamera_shutdown_KeepsHandle(av, n) ==
    [av |-> av,
     native |-> IF av.capture # <<>> THEN Capture_shutdown(av.capture[1], n)
                ELSE n,
     res |-> "Ok"]

AvCamera_shutdown(av, n) ==
    [av |-> [buffer |-> <<>>, capture |-> <<>>],
     native |-> IF av.capture # <<>> THEN Capture_shutdown(av.capture[1], n)
                ELSE n,
     res |-> "Ok"]

\* AvCamera::next
AvCamera_next_BufferOnly(av, n, skips, waits, outcome) ==
    IF av.buffer # <<>>
    THEN [av |-> av, native |-> n, res |-> "Ok",
          frame |-> [width |-> 1, height |-> 1, len |-> av.buffer[1]]]
    ELSE [av |-> av, native |-> n, res |-> "DeviceNoLongerAvailable",
          frame |-> NoFrame]

AvCamera_next(av, n, skips, waits, outcome) ==
    IF av.capture # <<>> /\ av.buffer # <<>>
    THEN LET cap == av.capture[1]
             r   == Capture_read(cap, n, skips, waits, outcome)
             f   == frame_from_slice(av.buffer[1], cap.resolution[1],
                                     cap.resolution[2])
             av1 == [av EXCEPT !.capture = <<r.cap>>]
         IN  IF r.res = "blocked"
             THEN [av |-> av1, native |-> r.native, res |-> "blocked",
                   frame |-> NoFrame]
             ELSE IF r.res # "Ok"
             THEN [av |-> av1, native |-> r.native, res |-> "DeviceFailed",
                   frame |-> NoFrame]
             ELSE IF f.res # "Ok"
             THEN [av |-> av1, native |-> r.native,
                   res |-> "FailedToEncodeFrame", frame |-> NoFrame]
             ELSE [av |-> av1, native |-> r.native, res |-> "Ok",
                   frame |-> [width |-> f.width, height |-> f.height,
                              len |-> f.len]]
    ELSE [av |-> av, native |-> n, res |-> "DeviceNoLongerAvailable",
          frame |-> NoFrame]

\* ------------------------------------------------- the Capture Session

\* The image a replay file decodes to: to_rgb8 gives width * height * 3
\* bytes (the file numbered e is e pixels wide and one high).
DecodedImage(entry) == [width |-> entry, height |-> 1, len |-> entry * 3]

\* A session of backend b on which nothing has been called.  `calls` counts
\* the next() calls made since the last initialize() that succeeded, `arg`
\* is what the last call was given.
NewSession(b) ==
    [backend |-> b, pc |-> "live", inits |-> 0, inited |-> FALSE,
     closed |-> FALSE, nexts |-> 0, calls |-> 0, shuts |-> 0, op |-> "none",
     res |-> "none", arg |-> <<>>, frame |-> NoFrame]

\* CameraLike::initialize on an AvCamera
Av_initialize(cfg, fail, left) ==
    /\ sess.backend = "av" /\ sess.pc = "live"
    /\ LET r == AvCamera_initialize(avcam, native, cfg, fail, left)
       IN  /\ avcam' = r.av
           /\ native' = r.native
           /\ sess' = [sess EXCEPT !.inits = @ + 1,
                                   !.inited = @ \/ r.res = "Ok",
                                   !.calls = IF r.res = "Ok" THEN 0 ELSE @,
                                   !.pc = IF r.res = "panic" THEN "aborted" ELSE @,
                                   !.op = "initialize", !.res = r.res,
                                   !.arg = cfg.resolution, !.frame = NoFrame]
    /\ UNCHANGED <<pvars, avars, enc>>

\* CameraLike::next on an AvCamera
Av_next(skips, waits, outcome) ==
    /\ sess.backend = "av" /\ sess.pc = "live"
    /\ LET r == AvCamera_next(avcam, native, skips, waits, outcome)
       IN  /\ avcam' = r.av
           /\ native' = r.native
           /\ sess' = [sess EXCEPT !.nexts = @ + 1, !.calls = @ + 1,
                                   !.pc = IF r.res = "blocked" THEN "blocked" ELSE @,
                                   !.op = "next", !.res = r.res,
                                   !.arg = <<skips, waits, outcome>>,
                                   !.frame = r.frame]
    /\ UNCHANGED <<pvars, avars, enc>>

\* CameraLike::shutdown on an AvCamera
Av_shutdown ==
    /\ sess.backend = "av" /\ sess.pc = "live"
    /\ LET r == AvCamera_shutdown(avcam, native)
       IN  /\ avcam' = r.av
           /\ native' = r.native
           /\ sess' = [sess EXCEPT !.shuts = @ + 1, !.closed = TRUE,
                                   !.op = "shutdown", !.res = r.res,
                                   !.arg = <<>>, !.frame = NoFrame]
    /\ UNCHANGED <<pvars, avars, enc>>

\* CameraLike::initialize on a MockCamera, with the settings of `manifest`
Mock_initialize ==
    /\ sess.backend = "mock" /\ sess.pc = "live"
    /\ LET r == MockCamera_initialize(camera, manifest)
       IN  /\ camera' = r.cam
           /\ sess' = [sess EXCEPT !.inits = @ + 1,
                                   !.inited = @ \/ r.res = "Ok",
                                   !.calls = IF r.res = "Ok" THEN 0 ELSE @,
                                   !.op = "initialize", !.res = r.res,
                                   !.arg = <<>>, !.frame = NoFrame]
    /\ UNCHANGED <<pvars, apc, manifest, marker, result, pulls, captured,
                   persisted, shutdowns, avcam, native, enc>>

\* CameraLike::next on a MockCamera: the decoded image goes through
\* frame_from_slice.
Mock_next ==
    /\ sess.backend = "mock" /\ sess.pc = "live"
    /\ LET r   == MockCamera_next(camera, manifest.bad)
           img == DecodedImage(r.cam.active)
           f   == frame_from_slice(img.len, img.width, img.height)
           res == IF r.res # "Ok" THEN r.res
                  ELSE IF f.res # "Ok" THEN "FailedToEncodeFrame"
                  ELSE "Ok"
       IN  /\ camera' = r.cam
           /\ sess' = [sess EXCEPT !.nexts = @ + 1, !.calls = @ + 1,
                                   !.pc = IF r.res = "panic" THEN "aborted" ELSE @,
                                   !.op = "next", !.res = res, !.arg = <<>>,
                                   !.frame = IF res = "Ok"
                                             THEN [width |-> f.width,
                                                   height |-> f.height,
                                                   len |-> f.len]
                                             ELSE NoFrame]
    /\ UNCHANGED <<pvars, apc, manifest, marker, result, pulls, captured,
                   persisted, shutdowns, avcam, native, enc>>

\* CameraLike::shutdown on a MockCamera
Mock_shutdown ==
    /\ sess.backend = "mock" /\ sess.pc = "live"
    /\ LET r == MockCamera_shutdown(camera)
       IN  /\ camera' = r.cam
           /\ sess' = [sess EXCEPT !.shuts = @ + 1, !.closed = TRUE,
                                   !.op = "shutdown", !.res = r.res,
                                   !.arg = <<>>, !.frame = NoFrame]
    /\ UNCHANGED <<pvars, apc, manifest, marker, result, pulls, captured,
                   persisted, shutdowns, avcam, native, enc>>

\* No Capture Session and no conversion: the state of the hardware part
\* while the Scheduler or App::run is looked at on its own.
NoHardware ==
    /\ avcam = AvCamera_default
    /\ native = NoNative
    /\ sess = NewSession("none")
    /\ enc = NoEncoding

\* ------------------------------------------------------- the specification

\* The state after TimeProbe::new(cfg), the two clock reads `gap` apart.
Constructed(cfg, gap) ==
    /\ input = cfg
    /\ probe = TimeProbe_new(cfg, 0, gap, WallSec)
    /\ clock = gap
    /\ ppc = "ready"
    /\ op = "new"
    /\ ret = "Ok"
    /\ emitted = 0
    /\ snap = NoSnapshot
    /\ prev = NoSnapshot
    /\ syncs = 0
    /\ synced = 0
    /\ ended = FALSE
    /\ apc = "none"
    /\ manifest = NoManifest
    /\ camera = MockCamera_default
    /\ marker = FALSE
    /\ result = "running"
    /\ pulls = 0
    /\ captured = 0
    /\ persisted = 0
    /\ shutdowns = 0
    /\ NoHardware
    /\ flag = NoFlag
    /\ lockf = NoLock

Init == \E cfg \in Configs, gap \in 0 .. MaxGap : Constructed(cfg, gap)

\* The operations of a TimeProbe and the passing of time, kept to the
\* clock windows and to MaxSyncs calls of sync_network_time.
Next ==
    \/ TimeProbe_next /\ InBounds(clock') /\ UNCHANGED <<avars, hvars, flag, lockf>>
    \/ TimeProbe_poll /\ InBounds(clock') /\ UNCHANGED <<avars, hvars, flag, lockf>>
    \/ \E gap \in 0 .. MaxGap :
          /\ syncs < MaxSyncs
          /\ sync_network_time_ok(NtpSec, gap)
          /\ InBounds(clock')
          /\ UNCHANGED <<avars, hvars, flag, lockf>>
    \/ syncs < MaxSyncs /\ sync_network_time_err /\ UNCHANGED <<avars, hvars, flag, lockf>>
    \/ \E d \in {1, F32Exact * Res} :
          Elapse(d) /\ InBounds(clock') /\ UNCHANGED <<avars, hvars, flag, lockf>>

Spec == Init /\ [][Next]_vars

\* The configurations of the crate's tests sample_at_interval and
\* sample_at_interval_with_scale, each with either test's sample count.
TestedConfigs ==
    { [interval |-> 500, idle |-> 100, samples |-> n, time_scale |-> One]
        : n \in {4, 10} }
    \cup
    { [interval |-> 1000, idle |-> 100, samples |-> n, time_scale |-> <<5, 1>>]
        : n \in {4, 10} }

TestedInit == \E cfg \in TestedConfigs, gap \in 0 .. MaxGap : Constructed(cfg, gap)

\* The tests' run: the probe is collected, the clock advancing by exactly
\* the sleeps of the loop.
TestedNext ==
    \/ TimeProbe_next /\ UNCHANGED <<avars, hvars, flag, lockf>>
    \/ TimeProbe_poll /\ UNCHANGED <<avars, hvars, flag, lockf>>

SpecTested == TestedInit /\ [][TestedNext]_vars

\* The run of a TimeProbe that is never told to stop (samples = -1), the
\* loop of next() running on and the clock advancing.
LiveInit ==
    \E cfg \in Configs, gap \in 0 .. MaxGap :
        cfg.samples = -1 /\ Constructed(cfg, gap)

LiveSpec ==
    /\ LiveInit
    /\ [][Next]_vars
    /\ WF_vars(TimeProbe_poll /\ InBounds(clock') /\ UNCHANGED <<avars, hvars, flag, lockf>>)
    /\ WF_vars(\E d \in {1, F32Exact * Res} :
                  Elapse(d) /\ InBounds(clock') /\ UNCHANGED <<avars, hvars, flag, lockf>>)

\* App::run on a manifest, the lock file there or not when it starts.
AppInit ==
    \E m \in Manifests, mk \in BOOLEAN :
        /\ Manifest(m)
        /\ manifest = m
        /\ marker = mk
        /\ apc = "create_camera"
        /\ camera = MockCamera_default
        /\ result = "running"
        /\ pulls = 0
        /\ captured = 0
        /\ persisted = 0
        /\ shutdowns = 0
        /\ input = NoConfig
        /\ probe = NoProbe
        /\ clock = 0
        /\ ppc = "ready"
        /\ op = "none"
        /\ ret = "none"
        /\ emitted = 0
        /\ snap = NoSnapshot
        /\ prev = NoSnapshot
        /\ syncs = 0
        /\ synced = 0
        /\ ended = FALSE
        /\ NoHardware
        /\ flag = NoFlag
        /\ lockf = NoLock

\* The steps of App::run, the removal of the lock file and the passing of
\* time while the run has a TimeProbe (before, no clock read depends on it).
\* `flag` keeps the number of is_locked() calls made, while the lock file
\* is away how many had been made when it was removed, and whether lock()
\* wrote the file.
AppNext ==
    \/ App_create_camera /\ UNCHANGED <<hvars, flag, lockf>>
    \/ \E gap \in 0 .. MaxGap : App_new_probe(gap) /\ InBounds(clock') /\ UNCHANGED <<hvars, flag, lockf>>
    \/ \E gap \in 0 .. MaxGap : App_sync_ok(NtpSec, gap) /\ InBounds(clock') /\ UNCHANGED <<hvars, flag, lockf>>
    \/ App_sync_err /\ UNCHANGED <<hvars, flag, lockf>>
    \/ App_lock_ok /\ UNCHANGED <<hvars, lockf>>
          /\ flag' = [flag EXCEPT !.removed = -1, !.wrote = ~marker]
    \/ App_lock_err /\ UNCHANGED <<hvars, flag, lockf>>
    \/ App_pull /\ InBounds(clock') /\ UNCHANGED <<hvars, flag, lockf>>
    \/ App_poll /\ InBounds(clock') /\ UNCHANGED <<hvars, flag, lockf>>
    \/ App_capture /\ UNCHANGED <<hvars, flag, lockf>>
    \/ App_save_ok /\ UNCHANGED <<hvars, flag, lockf>>
    \/ App_save_err /\ UNCHANGED <<hvars, flag, lockf>>
    \/ App_check /\ UNCHANGED <<hvars, lockf>>
          /\ flag' = [flag EXCEPT !.reads = @ + 1]
    \/ App_shutdown /\ UNCHANGED <<hvars, flag, lockf>>
    \/ /\ apc # "done"
       /\ MarkerRemoved
       /\ UNCHANGED <<hvars, lockf>>
       /\ flag' = [flag EXCEPT !.removed = flag.reads]
    \/ \E d \in {1, F32Exact * Res} :
          /\ apc \notin {"create_camera", "new_probe", "done"}
          /\ Elapse(d)
          /\ InBounds(clock')
          /\ UNCHANGED <<avars, hvars, flag, lockf>>

SpecApp == AppInit /\ [][AppNext]_vars

\* No Scheduler and no App: the state of those parts while a Capture
\* Session or a conversion is looked at on its own.
NoScheduler ==
    /\ input = NoConfig
    /\ probe = NoProbe
    /\ clock = 0
    /\ ppc = "ready"
    /\ op = "none"
    /\ ret = "none"
    /\ emitted = 0
    /\ snap = NoSnapshot
    /\ prev = NoSnapshot
    /\ syncs = 0
    /\ synced = 0
    /\ ended = FALSE

NoApp ==
    /\ apc = "none"
    /\ marker = FALSE
    /\ result = "running"
    /\ pulls = 0
    /\ captured = 0
    /\ persisted = 0
    /\ shutdowns = 0

\* A Capture Session of either backend, just created; the replay backend
\* with the settings and the folder of a manifest.
SessionInit ==
    \E b \in {"av", "mock"}, m \in Manifests :
        /\ Manifest(m)
        /\ ~m.use_ntp /\ m.sample_interval = 0 /\ m.sample_idle = 0
        /\ b = "av" => m = NoManifest
        /\ manifest = m
        /\ camera = MockCamera_default
        /\ sess = NewSession(b)
        /\ avcam = AvCamera_default
        /\ native = NoNative
        /\ enc = NoEncoding
        /\ flag = NoFlag
        /\ lockf = NoLock
        /\ NoScheduler
        /\ NoApp

\* The lifecycle of a session: initialize is called on a session that is
\* neither initialized nor shut down.
CanInitialize == ~sess.inited /\ ~sess.closed /\ sess.inits < MaxInits

\* The initialize calls on an AvCamera: the settings, where the open
\* sequence fails and whether the device leaves options; of the calls that
\* differ only in what is never read or never reached, one is kept.
AvCalls ==
    { c \in AvConfigs \X Fails \X BOOLEAN :
        LET value == IF c[1].resolution = <<>> THEN DefaultResolution
                     ELSE c[1].resolution[1]
            ok    == as_resolution_tuple(value).res = "Ok"
        IN  /\ ~ok => c[1].framerate = "ok"
            /\ (~ok \/ c[1].framerate = "absent") => c[2] = "none"
            /\ c[2] \in {"backend_nul", "backend", "pixel_format_nul",
                         "device_nul", "open"} => ~c[3]
            /\ (~ok \/ c[1].framerate = "absent") => ~c[3] }

\* The calls made on a session: initialize (by its lifecycle), next and
\* shutdown at any time, MaxNexts and MaxShuts times at most.
SessionNext ==
    \/ \E c \in AvCalls : CanInitialize /\ Av_initialize(c[1], c[2], c[3])
          /\ UNCHANGED <<flag, lockf>>
    \/ \E skips \in 0 .. MaxSkips, waits \in 0 .. MaxSkips, outcome \in Outcomes :
          /\ skips + waits <= MaxSkips
          /\ sess.nexts < MaxNexts
          /\ Av_next(skips, waits, outcome)
          /\ UNCHANGED <<flag, lockf>>
    \/ sess.shuts < MaxShuts /\ Av_shutdown /\ UNCHANGED <<flag, lockf>>
    \/ CanInitialize /\ Mock_initialize /\ UNCHANGED <<flag, lockf>>
    \/ sess.nexts < MaxNexts /\ Mock_next /\ UNCHANGED <<flag, lockf>>
    \/ sess.shuts < MaxShuts /\ Mock_shutdown /\ UNCHANGED <<flag, lockf>>

SpecSession == SessionInit /\ [][SessionNext]_vars

\* Encoding::frame_from_slice on a buffer of each length with each pair of
\* dimensions.
EncInit ==
    \E l \in 0 .. MaxLen, w \in 0 .. MaxDim, h \in 0 .. MaxDim :
        /\ enc = [NoEncoding EXCEPT !.len = l, !.width = w, !.height = h]
        /\ avcam = AvCamera_default
        /\ native = NoNative
        /\ sess = NewSession("none")
        /\ manifest = NoManifest
        /\ camera = MockCamera_default
        /\ flag = NoFlag
        /\ lockf = NoLock
        /\ NoScheduler
        /\ NoApp

EncNext ==
    Encoding_frame_from_slice
        /\ UNCHANGED <<pvars, avars, avcam, native, sess, flag, lockf>>

SpecEnc == EncInit /\ [][EncNext]_vars

\* A LockFile handle, the lock file there or not, no App and no Scheduler.
LockInit ==
    \E mk \in BOOLEAN :
        /\ marker = mk
        /\ lockf = NoLock
        /\ apc = "none"
        /\ manifest = NoManifest
        /\ camera = MockCamera_default
        /\ result = "running"
        /\ pulls = 0
        /\ captured = 0
        /\ persisted = 0
        /\ shutdowns = 0
        /\ flag = NoFlag
        /\ NoScheduler
        /\ NoHardware

\* What does not belong to the LockFile and its file.
NoLockVars ==
    <<pvars, apc, manifest, camera, result, pulls, captured, persisted,
      shutdowns, hvars, flag>>

\* The calls on the handle, MaxLockCalls at most, each file system
\* operation a step of its own, and the others' creating and removing the
\* file at any moment.
LockNext ==
    \/ lockf.calls < MaxLockCalls /\ LockFile_lock /\ UNCHANGED NoLockVars
    \/ \E ok \in BOOLEAN : LockFile_lock_write(ok) /\ UNCHANGED NoLockVars
    \/ lockf.calls < MaxLockCalls /\ LockFile_is_locked /\ UNCHANGED NoLockVars
    \/ lockf.calls < MaxLockCalls /\ LockFile_unlock /\ UNCHANGED NoLockVars
    \/ \E ok \in BOOLEAN : LockFile_unlock_remove(ok) /\ UNCHANGED NoLockVars
    \/ MarkerCreated /\ UNCHANGED NoLockVars
    \/ MarkerRemovedByOther /\ UNCHANGED NoLockVars

SpecLock == LockInit /\ [][LockNext]_vars


\* ------------------------------------------------------------ the claims

\* floor(time_scale * ms) in exact arithmetic.
ExactScaled(ms, ts) == (ms * ts[1]) \div ts[2]

\* A step is one iteration of the poll loop of next().
IsPoll == op' \in {"next", "poll"} /\ ret' # "None"

\* C1: a Scheduler with max_samples = N >= 0 (N = 0 included) yields
\* exactly N snapshots: never more than N, and N when it returns
\* end-of-sequence.
C1_ExactlyN ==
    input.samples >= 0 =>
        /\ emitted <= input.samples
        /\ ret = "None" => emitted = input.samples

\* C2: of two consecutive snapshots with no time sync between them, the
\* later has the strictly greater elapsed.
C2_ElapsedStrictlyIncreasing ==
    (emitted >= 2 /\ snap.epoch = prev.epoch) => snap.elapsed > prev.elapsed

\* C3: in the tested configurations, polled every idle ms, the i-th
\* snapshot has floor(elapsed / interval) = i.
C3_IthInIthInterval ==
    emitted >= 1 => snap.elapsed \div input.interval = emitted

\* C4: the i-th snapshot's elapsed is within one idle granularity (scaled
\* by time_scale) of i * interval.
C4_NoDrift ==
    emitted >= 1 =>
        LET err == snap.elapsed - emitted * input.interval
            tol == ExactScaled(input.idle, input.time_scale)
        IN  -tol <= err /\ err <= tol

\* C5: construction succeeds, a time_scale <= 0 is replaced by 1 and a
\* positive one is kept; the other fields of the config are kept.
C5_TimeScaleNormalized ==
    /\ op = "new" => ret = "Ok"
    /\ input.time_scale[1] <= 0 =>
           probe.config = [input EXCEPT !.time_scale = One]
    /\ input.time_scale[1] > 0 => probe.config = input

C5_Witness ==
    input.time_scale[1] <= 0 /\ emitted >= 1 /\ input.interval = 1

\* C6: once next() has returned end-of-sequence, no later step emits a
\* snapshot, enters the poll loop or changes sampled, and every later call
\* of next() returns end-of-sequence at once, leaving the probe and the
\* clock as they are.
C6_NonRestartable ==
    [][ended =>
          /\ ended'
          /\ emitted' = emitted
          /\ ppc' = "ready"
          /\ probe'.sampled = probe.sampled
          /\ op' = "next" => (ret' = "None" /\ probe' = probe /\ clock' = clock)
       ]_vars

C6_Witness ==
    ended /\ synced = 1 /\ op = "next" /\ ret = "None" /\ emitted = MaxSamples

\* The clock values of the windows the model explores.
ClockValues ==
    { j * F32Exact * Res + k : j \in 0 .. MaxJumps, k \in 0 .. MaxTicks }

\* The loop of next() can still see the interval pass within the windows.
HasRoom ==
    \E t \in ClockValues :
        /\ t >= clock
        /\ ExactScaled(AsMillis(t, probe.last), input.time_scale)
              > input.interval + F32Ulp(input.interval)

\* C7: with max_samples unbounded (-1) next() never returns
\* end-of-sequence, and with the clock advancing a pull whose interval can
\* pass returns a snapshot, for every interval, idle and positive
\* time_scale.
C7_UnboundedNeverEnds ==
    /\ [](input.samples = -1 => ret # "None")
    /\ []((input.time_scale[1] > 0 /\ ppc = "loop" /\ HasRoom)
            => <>(ppc = "ready"))

C7_Witness ==
    /\ input.samples = -1 /\ input.time_scale = <<1, 2>> /\ input.interval = 0
    /\ op = "poll" /\ ret = "Some" /\ emitted = 2
    /\ clock >= F32Exact * Res

\* C8: a poll emits exactly when floor(time_scale * (now - last)) >
\* interval, then setting last = now and adding one to sampled; otherwise
\* it emits nothing, changes no state and sleeps for idle.
C8_EmitsIffDue ==
    [][IsPoll =>
          IF ExactScaled(AsMillis(clock, probe.last), probe.config.time_scale)
                > probe.config.interval
          THEN /\ ret' = "Some"
               /\ emitted' = emitted + 1
               /\ probe' = [probe EXCEPT !.last = clock, !.sampled = @ + 1]
          ELSE /\ ret' = "pending"
               /\ emitted' = emitted
               /\ probe' = probe
               /\ clock' = clock + probe.config.idle * Res
       ]_vars

\* C9: an emitted snapshot has timestamp = reference + elapsed; a
\* successful sync returning sec sets reference to sec * 1000, resets
\* moment and last to the time of the sync and leaves sampled alone.
C9_TimestampAnchored ==
    [][/\ emitted' = emitted + 1 =>
            /\ snap'.timestamp = probe.reference + snap'.elapsed
            /\ probe'.reference = probe.reference
       /\ (synced' = synced + 1) =>
            /\ probe'.reference = NtpSec * 1000
            /\ clock <= probe'.moment /\ probe'.moment <= probe'.last
            /\ probe'.last <= clock'
            /\ clock' - clock <= MaxGap
            /\ probe'.sampled = probe.sampled
            /\ emitted' = emitted
      ]_vars

C9_Witness ==
    /\ synced = 1 /\ emitted >= 1 /\ snap.epoch = 1 /\ prev.epoch = 0
    /\ snap.timestamp = NtpSec * 1000 + snap.elapsed /\ snap.elapsed > 0

\* C10: App::run attempts the time sync at most once, before any tick is
\* pulled; a failed sync leaves the probe as it was, and run returns the
\* error with no tick pulled, no frame captured and none persisted.
C10_SyncOnceAtStartup ==
    [][/\ syncs' # syncs =>
            (syncs = 0 /\ syncs' = 1 /\ pulls = 0 /\ emitted = 0)
       /\ (syncs' # syncs /\ ret' = "Err") =>
            (probe' = probe /\ apc' = "done" /\ result' = "NetworkFailed")
       /\ result' = "NetworkFailed" =>
            /\ apc' = "done" /\ ret' = "Err"
            /\ pulls' = 0 /\ emitted' = 0 /\ captured' = 0 /\ persisted' = 0
      ]_vars

C10_Witness ==
    /\ result = "NetworkFailed" /\ syncs = 1 /\ synced = 0
    /\ Len(camera.frames) = MaxFiles /\ op = "sync" /\ ret = "Err"
    /\ pulls = 0 /\ captured = 0

\* ------------------------------------- the claims on the Capture Session

\* C11: on either backend a next() made while no initialize() has
\* succeeded (none called, or called and failed) returns no frame.
C11_NoFrameBeforeInitialize ==
    (sess.op = "next" /\ sess.res = "Ok") => sess.inited

C11_Witness ==
    /\ sess.backend = "av" /\ sess.op = "next"
    /\ sess.res = "DeviceNoLongerAvailable"
    /\ sess.inits >= 1 /\ ~sess.inited /\ ~sess.closed
    /\ avcam.buffer # <<>>

\* C12: after shutdown() has returned, every next() on the session fails:
\* it returns no frame.
C12_ClosedIsTerminal ==
    (sess.closed /\ sess.op = "next") => sess.res # "Ok"

\* C13: when the hardware initialize() fails in its open sequence, the
\* format context, the opened input, the option dictionary and the decoder
\* acquired in it have been released when the error is returned.
C13_FailedOpenReleasesAll ==
    (sess.backend = "av" /\ sess.op = "initialize" /\ sess.res = "DeviceFailed")
        => \A k \in {"context", "input", "options", "decoder"} :
               Live(native, k) = 0

\* A numeral: an unsigned integer in decimal digits (a "+" may precede it).
IsNumeral(p) ==
    LET ds == IF p # <<>> /\ Head(p) = "+" THEN Tail(p) ELSE p
    IN  ds # <<>> /\ \A i \in 1 .. Len(ds) : IsDigit(ds[i])

\* The value is not of the form WIDTHxHEIGHT.
NotWidthXHeight(value) ==
    \/ Cardinality({ i \in 1 .. Len(value) : value[i] = "x" }) # 1
    \/ \E p \in { Split(value)[i] : i \in 1 .. Len(Split(value)) } : ~IsNumeral(p)

\* C14: a hardware initialize() given a resolution that is not of the form
\* WIDTHxHEIGHT returns InvalidSettings and leaves the session as it was:
\* no buffer, no capture handle, no native resource comes to be.
C14_InvalidSettingsKeepsNothing ==
    [][ ( /\ sess'.backend = "av"
          /\ sess'.op = "initialize"
          /\ sess'.inits = sess.inits + 1
          /\ sess'.arg # <<>>
          /\ NotWidthXHeight(sess'.arg[1]) )
        => ( /\ sess'.res = "InvalidSettings"
             /\ avcam' = avcam
             /\ native' = native )
      ]_vars

C14_Witness ==
    /\ sess.backend = "av" /\ sess.op = "initialize"
    /\ sess.res = "InvalidSettings"
    /\ sess.arg = << <<"1", "x", "+">> >>
    /\ avcam = AvCamera_default
    /\ native = NoNative

\* C15: after shutdown() of a hardware session, whatever came before, no
\* native resource is live: every acquisition has its release.
C15_NothingLiveAfterShutdown ==
    (sess.backend = "av" /\ sess.op = "shutdown")
        => \A k \in Kinds : Live(native, k) = 0

\* In the order of the releases, every a comes before every b.
ReleasedBefore(a, b) ==
    \A i, j \in 1 .. Len(native.order) :
        (native.order[i] = a /\ native.order[j] = b) => i < j

\* C16: the hardware shutdown() closes the decoder before the format
\* context and releases the scratch frame before the decode frame.
C16_DependencyOrder ==
    (sess.backend = "av" /\ sess.op = "shutdown")
        => /\ ReleasedBefore("decoder", "context")
           /\ ReleasedBefore("scratch", "frame")

C19_RejectsWrongLength ==
    (enc.done /\ enc.len # enc.width * enc.height * 3) => enc.out.res # "Ok"

\* C20: the buffer of a frame that is returned is exactly as long as the
\* frame's own width * height * 3.
C20_FrameMatchesItsDimensions ==
    (enc.done /\ enc.out.res = "Ok")
        => enc.out.len = enc.out.width * enc.out.height * 3

C20_Witness ==
    /\ enc.done /\ enc.out.res = "Ok"
    /\ enc.out.width # enc.width
    /\ enc.out.len = MaxLen

\* ------------------------------------------ the claims on the replay backend

\* A replay session initialized over a source of decodable images only, with
\* the given repeat setting, whose last call was a next().
ReplayNext(repeat) ==
    /\ sess.backend = "mock" /\ sess.inited /\ sess.op = "next"
    /\ manifest.folder # "missing"
    /\ manifest.repeat = repeat
    /\ manifest.bad = {}

\* The number of images of the source; in file-name order the image at
\* index i (from 0) is the file named i + 1.
SourceSize == Len(manifest.listing)

\* C21: with repeat = false over K >= 0 decodable images, the first K
\* next() calls succeed and serve the images in file-name order, and every
\* call after them fails with DeviceNoLongerAvailable.
C21_ServesInOrderThenFails ==
    ReplayNext(FALSE) =>
        IF sess.calls <= SourceSize
        THEN sess.res = "Ok" /\ camera.active = (sess.calls - 1) + 1
        ELSE sess.res = "DeviceNoLongerAvailable"

C21_Witness ==
    /\ ReplayNext(FALSE)
    /\ manifest.listing = <<2, 1>>
    /\ sess.calls = 3
    /\ sess.res = "DeviceNoLongerAvailable"
    /\ camera.active = 2

\* C22: with repeat = true over K >= 1 decodable images, the n-th next()
\* call succeeds and serves the image at index (n - 1) mod K.
C22_RepeatWraps ==
    (ReplayNext(TRUE) /\ SourceSize >= 1) =>
        /\ sess.res = "Ok"
        /\ camera.active = ((sess.calls - 1) % SourceSize) + 1

C22_Witness ==
    /\ ReplayNext(TRUE)
    /\ manifest.listing = <<2, 1>>
    /\ sess.calls = 3
    /\ sess.res = "Ok"
    /\ camera.active = 1

\* ---------------------------------------- the claims on the hardware next()

\* C23: a hardware next() on a device whose packet reads fail for good
\* returns, with DeviceNoLongerAvailable.
C23_DisconnectedNextFails ==
    (sess.backend = "av" /\ sess.op = "next" /\ sess.arg[3] = "blocked")
        => sess.res = "DeviceNoLongerAvailable"

\* The last call was a next() on a hardware session that is initialized and
\* not shut down, its packets being read (the device is there).
StreamingNext ==
    /\ sess.backend = "av" /\ sess.op = "next"
    /\ sess.inited /\ ~sess.closed
    /\ sess.arg[3] # "blocked"

\* Packets of other streams and packets without a picture are no errors:
\* when the packet after them decodes and is delivered, next() returns one
\* frame of the session's resolution.
SkipsAreTransparent ==
    (StreamingNext /\ sess.arg[3] = "ok") =>
        /\ sess.res = "Ok"
        /\ sess.frame.len = avcam.buffer[1]
        /\ <<sess.frame.width, sess.frame.height>> = avcam.capture[1].resolution

\* C24 as stated: a hardware next() returns an error only when the decoder
\* reports a failure.
C24_ErrorOnlyFromDecoder ==
    /\ SkipsAreTransparent
    /\ (StreamingNext /\ sess.res # "Ok") => sess.arg[3] = "decode_failed"

\* C24: a hardware next() returns an error only when the decoder reports a
\* failure, the picture's geometry does not match the buffer, or the copy
\* into the buffer fails; packets of other streams and packets without a
\* picture are read over and the first packet that decodes gives the frame.
C24_ErrorOnlyFromFailure ==
    /\ SkipsAreTransparent
    /\ (StreamingNext /\ sess.res # "Ok")
          => /\ sess.res = "DeviceFailed"
             /\ sess.arg[3] \in {"decode_failed", "size_mismatch", "copy_failed"}

C24_Witness ==
    /\ StreamingNext
    /\ sess.arg[1] + sess.arg[2] = MaxSkips
    /\ sess.arg[3] = "ok"
    /\ sess.res = "Ok"
    /\ sess.calls = 2

\* ------------------------------------------------- the claims on App::run

\* C25: shutdown() is called once, from the loop having been left (the
\* Scheduler ended, or the lock file was found away) with the last frame
\* persisted; a run that returns Ok has called it, and nothing is pulled,
\* captured or persisted after it.
C25_ShutdownOnceAfterLoop ==
    [][ /\ shutdowns' # shutdowns
              => ( /\ apc = "shutdown"
                   /\ shutdowns = 0 /\ shutdowns' = 1
                   /\ persisted = captured )
        /\ (apc' = "shutdown" /\ apc # "shutdown")
              => \/ apc = "check" /\ ~marker
                 \/ apc \in {"pull", "polling"} /\ ret' = "None"
        /\ (apc = "check" /\ apc' # apc /\ ~marker) => apc' = "shutdown"
        /\ shutdowns = 1 => UNCHANGED <<pulls, captured, persisted>>
        /\ (apc' = "done" /\ result' = "Ok") => shutdowns' = 1
      ]_vars

C25_Witness ==
    /\ apc = "done" /\ result = "Ok" /\ shutdowns = 1
    /\ persisted = 2 /\ ~marker

\* C26: a run that returns the error of a next() made in the loop has
\* called shutdown() before.
C26_ShutdownBeforeNextError ==
    (apc = "done" /\ result = "DeviceFailed" /\ pulls >= 1) => shutdowns = 1

\* C27: a run that ends after its Capture Session was initialized has
\* called shutdown() on it.
C27_EveryExitShutsDown ==
    (apc = "done" /\ result # "panic" /\ ~(result = "DeviceFailed" /\ pulls = 0))
        => shutdowns = 1

\* C28: when the lock file is removed after k checks, the run pulls k + 1
\* ticks at most, and a run that then ends without an error has captured and
\* persisted exactly k + 1 samples.
C28_StopsAfterCurrentSample ==
    flag.removed >= 0 =>
        /\ pulls <= flag.removed + 1
        /\ (apc = "done" /\ result = "Ok")
              => /\ pulls = flag.removed + 1
                 /\ captured = flag.removed + 1
                 /\ persisted = flag.removed + 1

C28_Witness ==
    /\ flag.removed = 2
    /\ apc = "done" /\ result = "Ok"
    /\ persisted = 3 /\ pulls = 3

\* C29: the lock file is looked at once per persisted sample, after the
\* save and nowhere else; a lock file that is away when the loop starts
\* lets one sample be captured and persisted.
C29_OneReadPerSample ==
    /\ flag.reads = IF apc = "check" THEN persisted - 1 ELSE persisted
    /\ apc \in {"create_camera", "new_probe", "sync", "lock"} => flag.reads = 0
    /\ (flag.removed = 0 /\ flag.reads >= 1)
          => /\ flag.reads = 1
             /\ pulls = 1 /\ captured = 1 /\ persisted = 1

C29_Witness ==
    /\ flag.removed = 0 /\ flag.reads = 1
    /\ apc = "done" /\ result = "Ok"
    /\ captured = 1 /\ persisted = 1

\* C30: a frame is persisted only after the tick and the capture of the
\* same iteration, in the order tick, capture, persist, and nothing is
\* persisted once a next() has failed.
C30_PersistsOnlyCapturedFrames ==
    [][ /\ persisted' # persisted
              => ( /\ apc = "save" /\ ret = "Some"
                   /\ persisted' = persisted + 1
                   /\ captured = persisted + 1
                   /\ pulls = captured )
        /\ captured' # captured
              => (apc = "capture" /\ pulls = captured + 1 /\ persisted = captured)
        /\ pulls' # pulls => (persisted = captured /\ captured = pulls)
        /\ result = "DeviceFailed" => persisted' = persisted
      ]_vars

C30_Witness ==
    /\ apc = "done" /\ result = "DeviceFailed"
    /\ pulls = 3 /\ captured = 2 /\ persisted = 2

\* ------------------------------------- the claims on the edges of a session

\* C36: a hardware initialize() returns Ok or a HardwareError for every
\* settings dictionary; it never aborts, an absent `framerate` included.
C36_InitializeAlwaysReturns ==
    (sess.backend = "av" /\ sess.op = "initialize")
        => sess.res \in {"Ok", "InvalidSettings", "DeviceFailed"}

\* C37: on a replay backend whose source is empty (no folder configured or
\* an empty folder) every next() returns DeviceNoLongerAvailable, with
\* repeat off and with repeat on.
C37_EmptySourceNeverServes ==
    (sess.backend = "mock" /\ sess.op = "next" /\ Len(camera.frames) = 0)
        => sess.res = "DeviceNoLongerAvailable"

\* Where a next() puts a cursor that was at `offset`, over K frames.
CursorAfter(offset, K, repeat) ==
    IF offset + 1 >= K /\ repeat THEN 0 ELSE offset + 1

\* C38: a replay next() moves the cursor by one position (to 0 from the
\* last one when repeat is on) whether the image then decodes or not, so
\* that the call after a failed one reads the following image; after a
\* next() that returned a frame the cursor is within 0 .. K - 1 and the
\* frame is that of the image at the cursor.
C38_CursorAdvancesByOne ==
    [][ (sess.backend = "mock" /\ sess'.nexts = sess.nexts + 1)
          => /\ camera'.offset =
                    CursorAfter(camera.offset, Len(camera.frames), camera.repeat)
             /\ camera'.frames = camera.frames
             /\ sess'.res = "Ok"
                  => /\ 0 <= camera'.offset
                     /\ camera'.offset < Len(camera.frames)
                     /\ camera'.active = camera.frames[camera'.offset + 1]
                     /\ sess'.frame.width = camera'.active
      ]_vars

C38_Witness ==
    /\ sess.backend = "mock" /\ sess.op = "next" /\ sess.res = "Ok"
    /\ camera.frames = <<1, 2>> /\ manifest.bad = {1}
    /\ sess.calls = 2
    /\ camera.offset = 1 /\ camera.active = 2

\* ------------------------------------------ more claims on the Scheduler

\* C34: of two consecutive snapshots of one Scheduler (no time sync between
\* them) the later's elapsed is more than interval above the earlier's.
C34_MinimumSpacing ==
    (emitted >= 2 /\ snap.epoch = prev.epoch)
        => snap.elapsed - prev.elapsed > probe.config.interval

\* What holds of a TimeProbe in every state.
ProbeInvariant ==
    /\ probe.sampled = emitted
    /\ probe.config.samples > 0 => probe.sampled <= probe.config.samples
    /\ probe.moment <= probe.last
    /\ probe.last <= clock

\* What a step inside next() may change: nothing of the probe, or, when it
\* returns a snapshot, last and sampled.
PullFrame ==
    op' \in {"next", "poll"}
        => /\ probe'.config = probe.config
           /\ probe'.reference = probe.reference
           /\ probe'.moment = probe.moment
           /\ \/ probe' = probe /\ emitted' = emitted
              \/ /\ probe'.sampled = probe.sampled + 1
                 /\ probe'.last = clock
                 /\ emitted' = emitted + 1
                 /\ ret' = "Some"

\* C35: sampled is the number of snapshots emitted so far and, with a
\* positive max_samples, never above it; moment <= last; a pull changes
\* last and sampled only, never reference, moment or the config.
C35_ProbeInvariants == []ProbeInvariant /\ [][PullFrame]_vars

C35_Witness ==
    /\ probe.config.samples = MaxSamples
    /\ emitted = MaxSamples /\ probe.sampled = MaxSamples
    /\ ended
    /\ synced = 1
    /\ probe.moment < probe.last

\* ------------------------------------------- more claims on App::run

\* A run over a replay folder of K >= 1 decodable images, repeat on.
RepeatRun ==
    /\ apc # "none"
    /\ manifest.folder = "dir" /\ manifest.repeat
    /\ Len(manifest.listing) >= 1
    /\ manifest.bad = {}

\* C31: a run asked for N samples (here N = MaxSamples) over a repeating
\* replay source of K images hands N pairs to persistence and no more, the
\* i-th with the image at sorted index (i - 1) mod K.
C31_ExactlyNPairs ==
    RepeatRun =>
        /\ persisted <= MaxSamples
        /\ apc = "check"
              => camera.active = ((persisted - 1) % Len(manifest.listing)) + 1

\* A step of somebody else than the run: the run stays where it is.
ExternalStep ==
    UNCHANGED <<apc, pvars, manifest, camera, result, pulls, captured,
                persisted, shutdowns>>

\* C32 as stated: in a whole run the lock file comes and goes by external
\* steps only.
C32_RunOnlyReads == [][marker' # marker => ExternalStep]_vars

\* C32: the run writes the lock file at startup when it is not there, and
\* nowhere else; from then on the lock file changes by external steps only.
C32_RunOnlyCreatesAtStartup ==
    [][ /\ marker' # marker
              => \/ apc = "lock" /\ apc' = "pull" /\ ~marker /\ marker'
                 \/ ExternalStep /\ marker /\ ~marker'
        /\ flag'.wrote # flag.wrote => (apc = "lock" /\ pulls = 0)
        /\ flag'.wrote => (apc = "lock" /\ ~marker /\ marker') \/ flag.wrote
      ]_vars

C32_Witness ==
    /\ flag.wrote
    /\ flag.removed = 1
    /\ apc = "done" /\ result = "Ok"
    /\ ~marker
    /\ persisted = 2

\* ------------------------------------------------ the claim on LockFile

\* A step that begins a call on the handle.
CallBegins == lockf'.calls = lockf.calls + 1

\* C33: whatever the calls and the others' creating and removing of the
\* file, is_locked() returns whether the file exists when it is called: true
\* right after a lock() that returned Ok, false right after an unlock() that
\* returned Ok or a removal by somebody else; lock() on an existing file and
\* unlock() on a missing one return Ok at once and change nothing.
C33_IsLockedTracksMarker ==
    /\ [] /\ lockf.last = "is_locked" => lockf.locked = marker
          /\ lockf.last = "lock_ok" => marker
          /\ lockf.last \in {"unlock_ok", "removed"} => ~marker
          /\ (lockf.last = "is_locked" /\ lockf.before = "lock_ok")
                => lockf.locked
          /\ (lockf.last = "is_locked" /\ lockf.before \in {"unlock_ok", "removed"})
                => ~lockf.locked
    /\ [][ /\ (CallBegins /\ marker /\ lockf'.pc # "remove")
                 => /\ lockf'.last \in {"lock_ok", "is_locked"}
                    /\ lockf'.pc = "idle"
                    /\ marker' = marker
           /\ (CallBegins /\ ~marker /\ lockf'.pc # "write")
                 => /\ lockf'.last \in {"unlock_ok", "is_locked"}
                    /\ lockf'.pc = "idle"
                    /\ marker' = marker
         ]_vars

C33_Witness ==
    /\ lockf.last = "is_locked" /\ lockf.before = "lock_ok"
    /\ lockf.locked /\ marker
    /\ lockf.calls = MaxLockCalls

====
